---- MODULE Spec2Model ----
(***************************************************************************)
(* The capture-and-route pipeline of the Electron overlay (main process):  *)
(* the start-screenshot / close-screenshot window handlers, the            *)
(* save-screenshot-data and send-adhoc-prompt persistence handlers, and    *)
(* the file-backed prompt queue with its polling consumer.                 *)
(***************************************************************************)
EXTENDS Integers, Sequences, FiniteSets, TLC

(* ------------------------------ bounds --------------------------------- *)
\* start-screenshot, close-screenshot and save-screenshot-data messages the
\* main process handles in one run
MaxIpc == 5
\* send-adhoc-prompt calls handled in one run
MaxAdhoc == 1
\* enqueues started, and crashes, in a run of the step-wise queue model
MaxEnq == 3
MaxCrash == 1
\* the logical size of the primary display, and how often one selection is cropped
LogicalWidth == 6
LogicalHeight == 4
MaxEvals == 2

(* ----------------------------- constants ------------------------------- *)
\* the value of `screenshotWindow` when no selection surface is referenced
NoWindow == 0
\* `filename` of a queue item that has none (ad-hoc text items)
NoFileName == 0

Backends == {"thumbnail", "native", "pipeline"}

VARIABLES
    backend,          \* which main.js variant's capture code runs
    mainVisible,      \* the main overlay window is shown (not hidden)
    mainWindow,       \* the `mainWindow` handle: "window", or "null" once it closed
    screenshotWindow, \* the `screenshotWindow` handle: NoWindow or a window id
    surfaces,         \* ids of the selection windows that exist (created, not closed)
    nwin,             \* number of selection windows created so far
    req,              \* close-screenshot invocation -> its stage
    backendCalls,     \* invocations for which the capture backend was called
    msgs,             \* invocation -> the screenshot-captured payload sent for it
    now,              \* the latest value read from the clock
    files,            \* screenshots directory: file name -> content
    command,          \* the .command mailbox file
    queue,            \* the .prompt_queue.json file
    saveLog,          \* save-screenshot-data call -> what it did and returned
    adhocLog,         \* send-adhoc-prompt calls, in order: what each returned
    enqueued,         \* items whose enqueue wrote the queue file successfully
    delivered,        \* items returned by the consumer's dequeue, in order
    lastDeq,          \* what the consumer's last dequeue returned
    producer,         \* the enqueue under way in the main process: the array it read
    consumer,         \* the dequeue under way in the consumer: the array it read
    crashes,          \* processes killed in the middle of a queue operation
    display,          \* screen.getPrimaryDisplay(): logical size and scale factor
    selection,        \* the rect the selection window sent with close-screenshot
    cropped,          \* what the try block of close-screenshot did with it
    other,            \* the enqueue under way in a second instance of the app
    env,              \* process.env: SCREENSHOT_PATH and GENERATED_CODE_PATH
    sinkPaths,        \* handler -> the sink paths its last call resolved
    localStorage,     \* the renderer's localStorage entry customPrompts
    manager,          \* the CustomPromptsManager of the page: this.prompts
    nops,             \* changes made to the prompt list so far
    builtin,          \* the page's DEFAULT_PROMPTS array
    lastOp,           \* the manager method that ran last
    transcriptWindow, \* the `transcriptWindow` handle: NoWindow or a window id
    twin,             \* transcript windows that exist: id -> "loading" or "shown"
    tcreated,         \* number of transcript windows created so far
    focused,          \* number of focus() calls on the transcript window
    backendLog        \* commands posted to the backend, in order

winVars == <<backend, mainVisible, mainWindow, screenshotWindow, surfaces, nwin, req,
             backendCalls, msgs>>
diskVars == <<now, files, command, queue, saveLog, adhocLog, enqueued>>
consVars == <<delivered, lastDeq>>
raceVars == <<producer, consumer, crashes, other>>
geomVars == <<display, selection, cropped>>
pathVars == <<env, sinkPaths>>
promptVars == <<localStorage, manager, nops, builtin, lastOp>>
transVars == <<transcriptWindow, twin, tcreated, focused, backendLog>>
vars == <<winVars, diskVars, consVars, raceVars, geomVars, pathVars, promptVars, transVars>>

(* --------------------------- window handlers --------------------------- *)

\* the messages of the screenshot flow handled so far
Handled == nwin + Cardinality(DOMAIN req) + Cardinality(DOMAIN saveLog)

\* req[r]: where invocation r of the close-screenshot handler is
InFlight == {r \in DOMAIN req : req[r] \in {"capturing", "cropping"}}

\* mainWindow.webContents.send('screenshot-captured', payload)
SendCaptured(r, payload) ==
    msgs' = (r :> payload) @@ msgs

\* ipcMain.on('start-screenshot'): hide the main window, create a selection
\* window and store it in screenshotWindow.
StartScreenshot ==
    /\ Handled < MaxIpc
    /\ mainVisible' = FALSE
    /\ nwin' = nwin + 1
    /\ surfaces' = surfaces \cup {nwin + 1}
    /\ screenshotWindow' = nwin + 1
    /\ UNCHANGED <<backend, mainWindow, req, backendCalls, msgs, diskVars, consVars, raceVars, geomVars, pathVars, promptVars, transVars>>

\* The first statement of close-screenshot: close the window the handle names.
CloseSurface ==
    /\ surfaces' = IF screenshotWindow # NoWindow
                   THEN surfaces \ {screenshotWindow} ELSE surfaces
    /\ screenshotWindow' = NoWindow

\* faulty variant of the catch block: the error is reported to the listener
\* but mainWindow.show() is left out
CaptureCatch_NoShow(r) ==
    /\ mainVisible' = mainVisible
    /\ SendCaptured(r, "nodata")
    /\ req' = (r :> "failed") @@ req

\* mainWindow.webContents.send(...) with mainWindow null: the TypeError
\* leaves the async handler (from the catch block too), nothing is sent
\* and the promise of the handler is rejected with nobody to catch it
Rejected(r) ==
    /\ mainVisible' = mainVisible
    /\ msgs' = msgs
    /\ req' = (r :> "rejected") @@ req

\* catch (e) { if (mainWindow) mainWindow.show(); send({dataUrl: null}) }
CaptureCatch(r) ==
    IF mainWindow = "null" THEN Rejected(r)
    ELSE /\ mainVisible' = TRUE
         /\ SendCaptured(r, "nodata")
         /\ req' = (r :> "failed") @@ req

\* the end of the try block: show the main window, send {dataUrl, selection}
CaptureDone(r) ==
    IF mainWindow = "null" THEN Rejected(r)
    ELSE /\ mainVisible' = TRUE
         /\ SendCaptured(r, "data")
         /\ req' = (r :> "captured") @@ req

\* faulty variant of the cancel path: it returns without sending
\* screenshot-captured
CloseCancel_NoSignal(w) ==
    LET r == Cardinality(DOMAIN req) + 1 IN
    /\ w \in surfaces
    /\ Handled < MaxIpc
    /\ CloseSurface
    /\ mainVisible' = TRUE
    /\ req' = (r :> "cancelled") @@ req
    /\ UNCHANGED <<backend, mainWindow, nwin, backendCalls, msgs, diskVars, consVars, raceVars, geomVars, pathVars, promptVars, transVars>>

\* faulty variant of the cancel path: the capture backend is invoked before
\* the selection is looked at
CloseCancel_Captures(w) ==
    LET r == Cardinality(DOMAIN req) + 1 IN
    /\ w \in surfaces
    /\ Handled < MaxIpc
    /\ CloseSurface
    /\ mainVisible' = TRUE
    /\ SendCaptured(r, "null")
    /\ req' = (r :> "cancelled") @@ req
    /\ backendCalls' = backendCalls \cup {r}
    /\ UNCHANGED <<backend, mainWindow, nwin, diskVars, consVars, raceVars, geomVars, pathVars, promptVars, transVars>>

\* faulty variant of the cancel path: the return is missing, so after the
\* null the try block runs on the missing selection, throws, and the catch
\* sends {dataUrl: null} as well
CloseCancel_NoReturn(w) ==
    LET r == Cardinality(DOMAIN req) + 1 IN
    /\ w \in surfaces
    /\ Handled < MaxIpc
    /\ CloseSurface
    /\ mainVisible' = TRUE
    /\ SendCaptured(r, "nodata")
    /\ req' = (r :> "cancelled") @@ req
    /\ UNCHANGED <<backend, mainWindow, nwin, backendCalls, diskVars, consVars, raceVars, geomVars, pathVars, promptVars, transVars>>

\* close-screenshot with no selection (ESC): the cancel path
CloseCancel(w) ==
    LET r == Cardinality(DOMAIN req) + 1 IN
    /\ w \in surfaces
    /\ Handled < MaxIpc
    /\ CloseSurface
    /\ IF mainWindow = "null" THEN Rejected(r)
       ELSE /\ mainVisible' = TRUE
            /\ SendCaptured(r, "null")
            /\ req' = (r :> "cancelled") @@ req
    /\ UNCHANGED <<backend, mainWindow, nwin, backendCalls, diskVars, consVars, raceVars, geomVars, pathVars, promptVars, transVars>>

\* close-screenshot with a selection, up to the first await (thumbnail,
\* pipeline) or to the end of the handler (native: every call is synchronous)
CloseConfirm(w, ok) ==
    LET r == Cardinality(DOMAIN req) + 1 IN
    /\ w \in surfaces
    /\ Handled < MaxIpc
    /\ backend = "native" \/ ok
    /\ CloseSurface
    /\ backendCalls' = backendCalls \cup {r}
    /\ IF backend = "native"
       THEN IF ok THEN CaptureDone(r) ELSE CaptureCatch(r)
       ELSE /\ req' = (r :> "capturing") @@ req
            /\ UNCHANGED <<mainVisible, msgs>>
    /\ UNCHANGED <<backend, mainWindow, nwin, diskVars, consVars, raceVars, geomVars, pathVars, promptVars, transVars>>

\* the awaited capture call settles: desktopCapturer.getSources (thumbnail,
\* then find/crop/toDataURL synchronously) or screenshot() (pipeline, then
\* sharp(...).toBuffer() is awaited)
CaptureReturn(r, ok) ==
    /\ r \in DOMAIN req
    /\ req[r] = "capturing"
    /\ IF ~ok THEN CaptureCatch(r)
       ELSE IF backend = "thumbnail" THEN CaptureDone(r)
       ELSE /\ req' = [req EXCEPT ![r] = "cropping"]
            /\ UNCHANGED <<mainVisible, msgs>>
    /\ UNCHANGED <<backend, mainWindow, screenshotWindow, surfaces, nwin, backendCalls,
                   diskVars, consVars, raceVars, geomVars, pathVars, promptVars, transVars>>

\* the awaited sharp(...).extract().sharpen().png().toBuffer() settles
CropReturn(r, ok) ==
    /\ r \in DOMAIN req
    /\ req[r] = "cropping"
    /\ IF ok THEN CaptureDone(r) ELSE CaptureCatch(r)
    /\ UNCHANGED <<backend, mainWindow, screenshotWindow, surfaces, nwin, backendCalls,
                   diskVars, consVars, raceVars, geomVars, pathVars, promptVars, transVars>>

\* mainWindow.on('closed'): the main window is gone while a selection
\* window keeps the application running
MainClosed ==
    /\ mainWindow = "window"
    /\ surfaces # {}
    /\ mainWindow' = "null"
    /\ mainVisible' = FALSE
    /\ UNCHANGED <<backend, screenshotWindow, surfaces, nwin, req, backendCalls, msgs,
                   diskVars, consVars, raceVars, geomVars, pathVars, promptVars, transVars>>

(* -------------------------- transcript window ------------------------- *)

MaxTranscript == 3
MaxFocus == 3

transRest == <<winVars, diskVars, consVars, raceVars, geomVars, pathVars, promptVars>>

\* sendCommandToBackend(command): the POST is issued; window tags it here
SendCommandToBackend(cmd, w) ==
    backendLog' = Append(backendLog, [command |-> cmd, window |-> w])

\* faulty variant of createTranscriptWindow: the handle is not looked at
CreateTranscriptWindow_NoCheck ==
    /\ tcreated < MaxTranscript
    /\ tcreated' = tcreated + 1
    /\ twin' = ((tcreated + 1) :> "loading") @@ twin
    /\ transcriptWindow' = tcreated + 1
    /\ UNCHANGED <<focused, backendLog, transRest>>

\* ipcMain.on('open-transcript-window') -> createTranscriptWindow(): focus
\* the window the handle names, or create one and store it in the handle
CreateTranscriptWindow ==
    IF transcriptWindow # NoWindow
    THEN /\ focused < MaxFocus
         /\ focused' = focused + 1
         /\ UNCHANGED <<transcriptWindow, twin, tcreated, backendLog, transRest>>
    ELSE /\ tcreated < MaxTranscript
         /\ tcreated' = tcreated + 1
         /\ twin' = ((tcreated + 1) :> "loading") @@ twin
         /\ transcriptWindow' = tcreated + 1
         /\ UNCHANGED <<focused, backendLog, transRest>>

\* transcriptWindow.once('ready-to-show', ...)
TranscriptReady(w) ==
    /\ w \in DOMAIN twin
    /\ twin[w] = "loading"
    /\ twin' = [twin EXCEPT ![w] = "shown"]
    /\ SendCommandToBackend("transcript_window_opened", w)
    /\ UNCHANGED <<transcriptWindow, tcreated, focused, transRest>>

\* transcriptWindow.on('closed', ...): window w was closed
TranscriptClosed(w) ==
    /\ w \in DOMAIN twin
    /\ twin' = [v \in DOMAIN twin \ {w} |-> twin[v]]
    /\ SendCommandToBackend("transcript_window_closed", w)
    /\ transcriptWindow' = NoWindow
    /\ UNCHANGED <<tcreated, focused, transRest>>

(* ------------------------------ storage -------------------------------- *)

\* promptText that is undefined or '' (falsy)
NoPrompt == ""
Prompts == {NoPrompt, "explain"}

\* a dataUrl that is null or undefined: the payload was null or {dataUrl: null}
NoData == [kind |-> "none", of |-> 0]
PngData(r) == [kind |-> "png", of |-> r]

\* the `destinations` argument: left out, or {gemini, claude}
Destinations ==
    {[given |-> FALSE, gemini |-> FALSE, claude |-> FALSE]}
        \cup {[given |-> TRUE, gemini |-> g, claude |-> c] : g, c \in BOOLEAN}

\* faulty variant of the default: without destinations only the push sink
\* is chosen
DefaultDests_PushOnly(destinations) ==
    IF destinations.given THEN destinations
    ELSE [given |-> TRUE, gemini |-> TRUE, claude |-> FALSE]

\* const dests = destinations || { gemini: true, claude: true }
DefaultDests(destinations) ==
    IF destinations.given THEN destinations
    ELSE [given |-> TRUE, gemini |-> TRUE, claude |-> TRUE]

\* A file system call of a handler can throw; the first one that throws ends
\* the try block. `at` names the call, `how` what it left behind: "fail" threw
\* before touching the path, "partial" threw after creating or truncating it.
NoFault == [at |-> "none", how |-> "ok"]
Faults(calls) ==
    {NoFault}
        \cup {[at |-> a, how |-> "fail"] : a \in calls}
        \cup {[at |-> a, how |-> "partial"] : a \in calls \cap {"png", "txt", "cmd", "qwrite"}}
How(fault, step) == IF fault.at = step THEN fault.how ELSE "ok"

\* faulty variant of the clock: a read may return less than the read before
DateNow_Backwards(t) == IF t = 0 THEN {1} ELSE {t - 1, t, t + 1}

\* new Date(), t being the latest value read so far (0: none yet): the clock
\* never runs backwards, and two reads can fall in the same millisecond
DateNow(t) == IF t = 0 THEN {1} ELSE {t, t + 1}

MissingFile == [st |-> "missing", data |-> <<>>]
CorruptFile == [st |-> "corrupt", data |-> <<>>]
JsonFile(value) == [st |-> "json", data |-> value]

\* fs.writeFileSync(path, data) on one of the two JSON files: what the path
\* holds afterwards
WriteFileSync(old, data, how) ==
    CASE how = "ok" -> JsonFile(data)
      [] how = "fail" -> old
      [] OTHER -> CorruptFile

\* fs.writeFileSync(path, data) in the screenshots directory
WriteCapture(dir, name, by, how) ==
    CASE how = "ok" -> (name :> [by |-> by, full |-> TRUE]) @@ dir
      [] how = "fail" -> dir
      [] OTHER -> (name :> [by |-> by, full |-> FALSE]) @@ dir

\* The running state of one handler call: the three stores, the clock, the
\* item it enqueued (if any) and the exception that ended its try block.
Begin ==
    [files |-> files, command |-> command, queue |-> queue, now |-> now,
     enq |-> <<>>, threw |-> "none"]
Throw(s, at) == [s EXCEPT !.threw = at]

\* faulty variant of the PNG step: a missing dataUrl is decoded to an empty
\* buffer and written like any other
WritePng_NoDecodeError(s, by, dataUrl, t, fault) ==
    IF s.threw # "none" THEN s
    ELSE LET how == How(fault, "png")
             s1 == [s EXCEPT !.now = t,
                             !.files = WriteCapture(s.files, <<"png", t>>, by, how)]
         IN IF how = "ok" THEN s1 ELSE Throw(s1, "png")

\* const timestamp = new Date()...; const data = Buffer.from(
\* dataUrl.split(',')[1], 'base64'); fs.writeFileSync(filePath, data)
WritePng(s, by, dataUrl, t, fault) ==
    IF s.threw # "none" THEN s
    ELSE IF dataUrl.kind = "none" THEN Throw([s EXCEPT !.now = t], "decode")
    ELSE LET how == How(fault, "png")
             s1 == [s EXCEPT !.now = t,
                             !.files = WriteCapture(s.files, <<"png", t>>, by, how)]
         IN IF how = "ok" THEN s1 ELSE Throw(s1, "png")

\* faulty variant of the prompt file step: the file name is built from a
\* timestamp of its own
WriteTxt_OwnStamp(s, by, t, fault) ==
    IF s.threw # "none" THEN s
    ELSE LET how == How(fault, "txt")
             s1 == [s EXCEPT !.files = WriteCapture(s.files, <<"txt", t + 1>>, by, how)]
         IN IF how = "ok" THEN s1 ELSE Throw(s1, "txt")

\* fs.writeFileSync(promptFilePath, promptText, 'utf-8')
WriteTxt(s, by, t, fault) ==
    IF s.threw # "none" THEN s
    ELSE LET how == How(fault, "txt")
             s1 == [s EXCEPT !.files = WriteCapture(s.files, <<"txt", t>>, by, how)]
         IN IF how = "ok" THEN s1 ELSE Throw(s1, "txt")

\* faulty variant of the push: the command is added to what the file holds
PushCommand_Append(s, commandData, fault) ==
    IF s.threw # "none" THEN s
    ELSE LET how == How(fault, "cmd")
             s1 == [s EXCEPT !.command =
                        WriteFileSync(s.command, s.command.data \o <<commandData>>, how)]
         IN IF how = "ok" THEN s1 ELSE Throw(s1, "cmd")

\* fs.writeFileSync(commandFilePath, JSON.stringify(commandData), 'utf-8')
PushCommand(s, commandData, fault) ==
    IF s.threw # "none" THEN s
    ELSE LET how == How(fault, "cmd")
             s1 == [s EXCEPT !.command = WriteFileSync(s.command, <<commandData>>, how)]
         IN IF how = "ok" THEN s1 ELSE Throw(s1, "cmd")

\* faulty variant of the append: the array read is dropped
QueuePush_Alone(items, item) == <<item>>

\* faulty variant of the append: the new item is put in front (unshift)
QueuePush_Front(items, item) == <<item>> \o items

\* queue.push(item)
QueuePush(items, item) == Append(items, item)

\* faulty variant of the queue block: the file is not read, the array
\* written holds the new item alone
Enqueue_Overwrite(s, item, fault) ==
    IF s.threw # "none" THEN s
    ELSE LET how == How(fault, "qwrite")
             s1 == [s EXCEPT !.now = item.timestamp,
                             !.queue = WriteFileSync(s.queue, <<item>>, how),
                             !.enq = IF how = "ok" THEN <<item>> ELSE <<>>]
         IN IF how = "ok" THEN s1 ELSE Throw(s1, "qwrite")

\* faulty variant of the queue block: a file that does not parse is
\* replaced by an empty array before the error is passed on
Enqueue_ClearsOnParseError(s, item, fault) ==
    IF s.threw # "none" THEN s
    ELSE IF s.queue.st # "missing" /\ How(fault, "qread") # "ok" THEN Throw(s, "qread")
    ELSE IF s.queue.st = "corrupt"
         THEN Throw([s EXCEPT !.queue = JsonFile(<<>>)], "qparse")
    ELSE LET how == How(fault, "qwrite")
             s1 == [s EXCEPT !.now = item.timestamp,
                             !.queue = WriteFileSync(s.queue, QueuePush(s.queue.data, item), how),
                             !.enq = IF how = "ok" THEN <<item>> ELSE <<>>]
         IN IF how = "ok" THEN s1 ELSE Throw(s1, "qwrite")

\* let queue = []; if (fs.existsSync(queueFilePath)) queue = JSON.parse(
\* fs.readFileSync(...)); queue.push(item); fs.writeFileSync(queueFilePath,
\* JSON.stringify(queue, null, 2), 'utf-8')
Enqueue(s, item, fault) ==
    IF s.threw # "none" THEN s
    ELSE IF s.queue.st # "missing" /\ How(fault, "qread") # "ok" THEN Throw(s, "qread")
    ELSE IF s.queue.st = "corrupt" THEN Throw(s, "qparse")
    ELSE LET how == How(fault, "qwrite")
             s1 == [s EXCEPT !.now = item.timestamp,
                             !.queue = WriteFileSync(s.queue, QueuePush(s.queue.data, item), how),
                             !.enq = IF how = "ok" THEN <<item>> ELSE <<>>]
         IN IF how = "ok" THEN s1 ELSE Throw(s1, "qwrite")

\* faulty variant of the handler: the sinks are written whether or not
\* there is a prompt
SaveScreenshotData_AlwaysRoutes(by, dataUrl, promptText, destinations, t1, t2, fault) ==
    LET dests == DefaultDests(destinations)
        commandData == [command |-> "analyze_screenshot", prompt |-> promptText,
                        screenshot_path |-> t1, by |-> by]
        item == [filename |-> t1, prompt |-> promptText, timestamp |-> t2,
                 type |-> "screenshot", by |-> by]
        s1 == WritePng(Begin, by, dataUrl, t1, fault)
        s2 == IF promptText = NoPrompt THEN s1 ELSE WriteTxt(s1, by, t1, fault)
        s3 == IF dests.gemini THEN PushCommand(s2, commandData, fault) ELSE s2
        s4 == IF dests.claude THEN Enqueue(s3, item, fault) ELSE s3
    IN s4

\* ipcMain.handle('save-screenshot-data'): the try block
SaveScreenshotData(by, dataUrl, promptText, destinations, t1, t2, fault) ==
    LET dests == DefaultDests(destinations)
        commandData == [command |-> "analyze_screenshot", prompt |-> promptText,
                        screenshot_path |-> t1, by |-> by]
        item == [filename |-> t1, prompt |-> promptText, timestamp |-> t2,
                 type |-> "screenshot", by |-> by]
        s1 == WritePng(Begin, by, dataUrl, t1, fault)
        s2 == IF promptText = NoPrompt THEN s1 ELSE WriteTxt(s1, by, t1, fault)
        s3 == IF promptText # NoPrompt /\ dests.gemini
              THEN PushCommand(s2, commandData, fault) ELSE s2
        s4 == IF promptText # NoPrompt /\ dests.claude
              THEN Enqueue(s3, item, fault) ELSE s3
    IN s4

\* ipcMain.handle('send-adhoc-prompt'): the try block
SendAdhocPrompt(by, promptText, destinations, t, fault) ==
    LET dests == DefaultDests(destinations)
        commandData == [command |-> "analyze_text_prompt", prompt |-> promptText,
                        screenshot_path |-> NoFileName, by |-> by]
        item == [filename |-> NoFileName, prompt |-> promptText, timestamp |-> t,
                 type |-> "adhoc", by |-> by]
        s1 == IF dests.gemini THEN PushCommand(Begin, commandData, fault) ELSE Begin
        s2 == IF dests.claude THEN Enqueue(s1, item, fault) ELSE s1
    IN s2

\* return { success: true, ... } at the end of the try block, or
\* return { success: false, error } from the catch block
Returned(s) == IF s.threw = "none" THEN "success" ELSE "failure"

\* the handler's effects on the stores
Commit(s) ==
    /\ files' = s.files
    /\ command' = s.command
    /\ queue' = s.queue
    /\ now' = s.now
    /\ enqueued' = enqueued \o s.enq

\* The file system calls a handler call can reach, given its arguments: the
\* ones that can throw in it.
SinkCalls(dests) ==
    (IF dests.gemini THEN {"cmd"} ELSE {})
        \cup (IF dests.claude
              THEN (IF queue.st = "missing" THEN {} ELSE {"qread"})
                       \cup (IF queue.st = "corrupt" THEN {} ELSE {"qwrite"})
              ELSE {})
SaveCalls(dataUrl, promptText, dests) ==
    IF dataUrl.kind = "none" THEN {}
    ELSE {"png"} \cup (IF promptText = NoPrompt THEN {}
                       ELSE {"txt"} \cup SinkCalls(dests))

\* The renderer's screenshot-captured listener hands the payload of
\* invocation r to saveScreenshotData, with the prompt and destinations of
\* its choice.
Save(r, promptText, destinations) ==
    /\ r \in DOMAIN msgs
    /\ r \notin DOMAIN saveLog
    /\ LET dataUrl == IF msgs[r] = "data" THEN PngData(r) ELSE NoData
           calls == SaveCalls(dataUrl, promptText, DefaultDests(destinations))
       IN \E t1 \in DateNow(now), fault \in Faults(calls) :
          \E t2 \in IF "qwrite" \in calls THEN DateNow(t1) ELSE {t1} :
            LET s == SaveScreenshotData(<<"save", r>>, dataUrl, promptText,
                                        destinations, t1, t2, fault)
            IN /\ Commit(s)
               /\ saveLog' = (r :> [ret |-> Returned(s), threw |-> s.threw,
                                    ts |-> t1, prompt |-> promptText,
                                    omitted |-> ~destinations.given,
                                    dests |-> DefaultDests(destinations)]) @@ saveLog
    /\ UNCHANGED <<winVars, adhocLog, consVars, raceVars, geomVars, pathVars, promptVars, transVars>>

\* the same call as one of the MaxIpc messages of the screenshot flow
SaveCall(r, promptText, destinations) ==
    /\ Handled < MaxIpc
    /\ Save(r, promptText, destinations)

\* The renderer calls sendAdhocPrompt.
AdhocCall(promptText, destinations) ==
    /\ Len(adhocLog) < MaxAdhoc
    /\ \E fault \in Faults(SinkCalls(DefaultDests(destinations))) :
       \E t \in IF "qwrite" \in SinkCalls(DefaultDests(destinations))
                THEN DateNow(now) ELSE {now} :
            LET s == SendAdhocPrompt(<<"adhoc", Len(adhocLog) + 1>>, promptText,
                                     destinations, t, fault)
            IN /\ Commit(s)
               /\ adhocLog' = Append(adhocLog,
                                     [ret |-> Returned(s), threw |-> s.threw,
                                      omitted |-> ~destinations.given,
                                      dests |-> DefaultDests(destinations)])
    /\ UNCHANGED <<winVars, saveLog, consVars, raceVars, geomVars, pathVars, promptVars, transVars>>

(* ------------------------------ consumer ------------------------------- *)

\* what dequeue returns when the queue holds nothing
Empty == [filename |-> NoFileName, prompt |-> NoPrompt, timestamp |-> 0,
          type |-> "empty", by |-> <<"none", 0>>]

\* the element dequeue removes
QueueFirst(items) == Head(items)
\* the array dequeue writes back
QueueRest(items) == Tail(items)

\* check_prompt_queue: read the array (a missing file is the empty array); if
\* it is empty return Empty, otherwise remove and return the first element
\* and write the remainder back. A file that does not parse is left alone.
Dequeue ==
    /\ queue.st # "corrupt"
    /\ IF queue.data = <<>>
       THEN /\ lastDeq' = Empty
            /\ UNCHANGED <<queue, delivered>>
       ELSE /\ lastDeq' = QueueFirst(queue.data)
            /\ delivered' = Append(delivered, QueueFirst(queue.data))
            /\ queue' = JsonFile(QueueRest(queue.data))
    /\ UNCHANGED <<winVars, now, files, command, saveLog, adhocLog, enqueued, raceVars, geomVars, pathVars, promptVars, transVars>>

(* ----------------- the queue file, one file access at a time ------------ *)

\* The main process and the consumer are two processes on one file without
\* a lock: between the read and the write-back of one, the other may run,
\* and either may be killed.

\* no queue operation under way
Idle == [pc |-> "idle", buf |-> <<>>, item |-> Empty]

\* send-adhoc-prompt, queue block: existsSync, readFileSync, JSON.parse and
\* queue.push (the array is in memory, the file not yet written)
EnqueueRead(promptText) ==
    /\ producer.pc = "idle"
    /\ Len(adhocLog) < MaxEnq
    /\ IF queue.st = "corrupt"
       THEN /\ adhocLog' = Append(adhocLog,
                                  [ret |-> "failure", threw |-> "qparse",
                                   omitted |-> FALSE,
                                   dests |-> [given |-> TRUE, gemini |-> FALSE, claude |-> TRUE]])
            /\ UNCHANGED <<now, producer>>
       ELSE /\ \E t \in DateNow(now) :
                /\ now' = t
                /\ producer' = [pc |-> "read", buf |-> queue.data,
                                item |-> [filename |-> NoFileName, prompt |-> promptText,
                                          timestamp |-> t, type |-> "adhoc",
                                          by |-> <<"adhoc", Len(adhocLog) + 1>>]]
            /\ UNCHANGED adhocLog
    /\ UNCHANGED <<winVars, files, command, queue, saveLog, enqueued, consVars,
                   consumer, crashes, other, geomVars, pathVars, promptVars, transVars>>

\* fs.writeFileSync(queueFilePath, JSON.stringify(queue, null, 2)) and the
\* return of { success: true }
EnqueueWrite ==
    /\ producer.pc = "read"
    /\ queue' = WriteFileSync(queue, QueuePush(producer.buf, producer.item), "ok")
    /\ enqueued' = Append(enqueued, producer.item)
    /\ adhocLog' = Append(adhocLog,
                          [ret |-> "success", threw |-> "none",
                           omitted |-> FALSE,
                           dests |-> [given |-> TRUE, gemini |-> FALSE, claude |-> TRUE]])
    /\ producer' = Idle
    /\ UNCHANGED <<winVars, now, files, command, saveLog, consVars, consumer, crashes, other, geomVars, pathVars, promptVars, transVars>>

\* The main process is killed after it read the file: before writeFileSync
\* opened it, or after writeFileSync truncated it and before the data is on
\* disk. The handler never returns.
ProducerCrash(inWrite) ==
    /\ producer.pc = "read"
    /\ crashes < MaxCrash
    /\ crashes' = crashes + 1
    /\ queue' = IF inWrite
                THEN WriteFileSync(queue, QueuePush(producer.buf, producer.item), "partial")
                ELSE queue
    /\ producer' = Idle
    /\ UNCHANGED <<winVars, now, files, command, saveLog, adhocLog, enqueued,
                   consVars, consumer, other, geomVars, pathVars, promptVars, transVars>>

\* dequeue, first half: read the current array; return Empty if it has no
\* element
DequeueRead ==
    /\ consumer.pc = "idle"
    /\ queue.st # "corrupt"
    /\ IF queue.data = <<>>
       THEN /\ lastDeq' = Empty
            /\ UNCHANGED consumer
       ELSE /\ consumer' = [pc |-> "read", buf |-> queue.data, item |-> Empty]
            /\ UNCHANGED lastDeq
    /\ UNCHANGED <<winVars, diskVars, delivered, producer, crashes, other, geomVars, pathVars, promptVars, transVars>>

\* dequeue, second half: remove the first element, write the remainder back
\* and return the element
DequeueWrite ==
    /\ consumer.pc = "read"
    /\ queue' = JsonFile(QueueRest(consumer.buf))
    /\ delivered' = Append(delivered, QueueFirst(consumer.buf))
    /\ lastDeq' = QueueFirst(consumer.buf)
    /\ consumer' = Idle
    /\ UNCHANGED <<winVars, now, files, command, saveLog, adhocLog, enqueued,
                   producer, crashes, other, geomVars, pathVars, promptVars, transVars>>

\* The consumer is killed between its read and its write-back, having
\* processed the first element or not; the file is as it was.
ConsumerCrash(processed) ==
    /\ consumer.pc = "read"
    /\ crashes < MaxCrash
    /\ crashes' = crashes + 1
    /\ delivered' = IF processed THEN Append(delivered, QueueFirst(consumer.buf))
                    ELSE delivered
    /\ consumer' = Idle
    /\ UNCHANGED <<winVars, diskVars, lastDeq, producer, other, geomVars, pathVars, promptVars, transVars>>

\* A second instance of the app (nothing in main.js asks for the single
\* instance lock) runs the same queue block on the same file.
OtherEnqueueRead(promptText) ==
    /\ other.pc = "idle"
    /\ Len(enqueued) < MaxEnq
    /\ queue.st # "corrupt"
    /\ \E t \in DateNow(now) :
        /\ now' = t
        /\ other' = [pc |-> "read", buf |-> queue.data,
                     item |-> [filename |-> NoFileName, prompt |-> promptText,
                               timestamp |-> t, type |-> "adhoc",
                               by |-> <<"other", Len(enqueued) + 1>>]]
    /\ UNCHANGED <<winVars, files, command, queue, saveLog, adhocLog, enqueued,
                   consVars, producer, consumer, crashes, geomVars, pathVars,
                   promptVars, transVars>>

OtherEnqueueWrite ==
    /\ other.pc = "read"
    /\ queue' = WriteFileSync(queue, QueuePush(other.buf, other.item), "ok")
    /\ enqueued' = Append(enqueued, other.item)
    /\ other' = Idle
    /\ UNCHANGED <<winVars, now, files, command, saveLog, adhocLog, consVars,
                   producer, consumer, crashes, geomVars, pathVars, promptVars, transVars>>

(* ------------------- close-screenshot: the crop geometry --------------- *)

\* The try block of close-screenshot, seen from the numbers: the selection
\* rect in logical pixels, the display, the rect handed to the crop call
\* and the size of the image that comes back.

\* primaryDisplay.scaleFactor in quarters: 1.0, 1.25, 1.5, 2.0
Scales4 == {4, 5, 6, 8}
Displays ==
    {[width |-> LogicalWidth, height |-> LogicalHeight, scale4 |-> s] : s \in Scales4}

\* what the selection window can send: any rect around the display, also
\* one that sticks out of it or has no area
Selections ==
    [x : -1..(LogicalWidth + 1), y : -1..(LogicalHeight + 1),
     width : 0..(LogicalWidth + 1), height : 0..(LogicalHeight + 1)]

NoRect == [x |-> 0, y |-> 0, width |-> 0, height |-> 0]
NoCrop == [n |-> 0, invoked |-> FALSE, rect |-> NoRect, outcome |-> "none",
           size |-> <<0, 0>>]

\* faulty variant of the rounding: the fraction is cut off
MathRound_Floor(num, den) == num \div den

\* Math.round(num / den): the integer next to it, a half going up
MathRound(num, den) == (2 * num + den) \div (2 * den)

\* the size in pixels of the full-screen image a variant crops from:
\* the thumbnail is asked for at primaryDisplay.size, the two others come
\* at the native resolution of the monitor
ImageSize(b, d) ==
    IF b = "thumbnail" THEN <<d.width, d.height>>
    ELSE <<MathRound(d.width * d.scale4, 4), MathRound(d.height * d.scale4, 4)>>

\* pipeline: nativeX = Math.round(selection.x * scaleFactor), ...
PipelineRect(sel, d) ==
    [x |-> MathRound(sel.x * d.scale4, 4),
     y |-> MathRound(sel.y * d.scale4, 4),
     width |-> MathRound(sel.width * d.scale4, 4),
     height |-> MathRound(sel.height * d.scale4, 4)]

\* native monitor: scaleX = capturedWidth / width, scaleY = capturedHeight /
\* height; scaledSelection = Math.round(selection.x * scaleX), ...
NativeRect(sel, d) ==
    LET captured == ImageSize("native", d) IN
    [x |-> MathRound(sel.x * captured[1], d.width),
     y |-> MathRound(sel.y * captured[2], d.height),
     width |-> MathRound(sel.width * captured[1], d.width),
     height |-> MathRound(sel.height * captured[2], d.height)]

\* thumbnail: primarySource.thumbnail.crop(selection)
ThumbnailRect(sel, d) == sel

\* the rect a variant hands to its crop call
CropRect(b, sel, d) ==
    CASE b = "pipeline" -> PipelineRect(sel, d)
      [] b = "native" -> NativeRect(sel, d)
      [] OTHER -> ThumbnailRect(sel, d)

\* rect lies within an image of this size and has an area
Inside(rect, size) ==
    /\ rect.x >= 0
    /\ rect.y >= 0
    /\ rect.width > 0
    /\ rect.height > 0
    /\ rect.x + rect.width <= size[1]
    /\ rect.y + rect.height <= size[2]

\* the part of rect within an image of this size
Clip(rect, size) ==
    LET x0 == IF rect.x < 0 THEN 0 ELSE rect.x
        y0 == IF rect.y < 0 THEN 0 ELSE rect.y
        x1 == IF rect.x + rect.width > size[1] THEN size[1] ELSE rect.x + rect.width
        y1 == IF rect.y + rect.height > size[2] THEN size[2] ELSE rect.y + rect.height
    IN [x |-> x0, y |-> y0,
        width |-> IF x1 > x0 THEN x1 - x0 ELSE 0,
        height |-> IF y1 > y0 THEN y1 - y0 ELSE 0]

\* What the crop call can do with rect. Within the image it returns an
\* image of the rect's size. Otherwise sharp's extract rejects the area
\* (the catch block runs); the crop of node-screenshots and of nativeImage
\* are library code: they throw or return what is left after clipping.
CropOutcomes(b, rect, size) ==
    IF Inside(rect, size)
    THEN {[outcome |-> "image", size |-> <<rect.width, rect.height>>]}
    ELSE {[outcome |-> "error", size |-> <<0, 0>>]}
         \cup (IF b = "pipeline" THEN {}
               ELSE {[outcome |-> "image",
                      size |-> <<Clip(rect, size).width, Clip(rect, size).height>>]})

\* close-screenshot with a selection, the try block: the full screen is
\* captured first, then the rect is computed and the capture cropped
CaptureRegion ==
    /\ cropped.n < MaxEvals
    /\ \E o \in CropOutcomes(backend, CropRect(backend, selection, display),
                             ImageSize(backend, display)) :
        cropped' = [n |-> cropped.n + 1, invoked |-> TRUE,
                    rect |-> CropRect(backend, selection, display),
                    outcome |-> o.outcome, size |-> o.size]
    /\ UNCHANGED <<winVars, diskVars, consVars, raceVars, display, selection,
                   pathVars, promptVars, transVars>>

(* ------------------------------ sink paths ----------------------------- *)

\* a variable of process.env that is not set
Unset == <<>>
NoEnv == [SCREENSHOT_PATH |-> Unset, GENERATED_CODE_PATH |-> Unset]
NoPaths == <<>>

\* __dirname of main.js
AppDir == <<"app", "electron-overlay">>

\* values of the two variables: not set, or a directory
ScreenshotPaths ==
    {Unset, <<"app", "generated_code", "screenshots">>, <<"data", "screenshots">>,
     <<"data", "shots">>, <<"share", "generated_code", "screenshots">>, <<"shots">>}
GeneratedCodePaths ==
    {Unset, <<"app", "generated_code">>, <<"data">>, <<"share", "generated_code">>,
     <<"share">>}
Envs == [SCREENSHOT_PATH : ScreenshotPaths, GENERATED_CODE_PATH : GeneratedCodePaths]

\* path.join(dir, ...parts): ".." drops the directory before it
RECURSIVE PathJoin(_, _)
PathJoin(dir, parts) ==
    IF parts = <<>> THEN dir
    ELSE IF Head(parts) = ".." /\ dir # <<>>
         THEN PathJoin(SubSeq(dir, 1, Len(dir) - 1), Tail(parts))
         ELSE PathJoin(Append(dir, Head(parts)), Tail(parts))

\* path.dirname(p)
Dirname(p) == IF p = <<>> THEN p ELSE SubSeq(p, 1, Len(p) - 1)

\* save-screenshot-data: screenshotsDir = process.env.SCREENSHOT_PATH ||
\* path.join(__dirname, '..', 'generated_code', 'screenshots');
\* generatedCodeDir = path.dirname(screenshotsDir)
SaveSinkPaths(e) ==
    LET screenshotsDir == IF e.SCREENSHOT_PATH # Unset THEN e.SCREENSHOT_PATH
                          ELSE PathJoin(AppDir, <<"..", "generated_code", "screenshots">>)
        generatedCodeDir == Dirname(screenshotsDir)
    IN [command |-> PathJoin(generatedCodeDir, <<".command">>),
        queue |-> PathJoin(generatedCodeDir, <<".prompt_queue.json">>)]

\* send-adhoc-prompt: generatedCodeDir = process.env.GENERATED_CODE_PATH ||
\* path.join(__dirname, '..', 'generated_code')
AdhocSinkPaths(e) ==
    LET generatedCodeDir == IF e.GENERATED_CODE_PATH # Unset THEN e.GENERATED_CODE_PATH
                            ELSE PathJoin(AppDir, <<"..", "generated_code">>)
    IN [command |-> PathJoin(generatedCodeDir, <<".command">>),
        queue |-> PathJoin(generatedCodeDir, <<".prompt_queue.json">>)]

\* a call of the handler resolves its sink paths from the environment
ResolvePaths(handler) ==
    /\ handler \notin DOMAIN sinkPaths
    /\ sinkPaths' = (handler :> (IF handler = "save" THEN SaveSinkPaths(env)
                                 ELSE AdhocSinkPaths(env))) @@ sinkPaths
    /\ UNCHANGED <<winVars, diskVars, consVars, raceVars, geomVars, env, promptVars, transVars>>

(* --------------------------- custom prompts ---------------------------- *)

\* localStorage.getItem('customPrompts') === null
NoEntry == [st |-> "unset", data |-> <<>>]
\* before the page has constructed its CustomPromptsManager
NoManager == [loads |-> 0, prompts |-> <<>>]

NumDefaults == 2
MaxOps == 3
MaxLoads == 2

\* DEFAULT_PROMPTS
DefaultPrompts ==
    [i \in 1..NumDefaults |->
        [id |-> <<"default", i>>, icon |-> "d", label |-> "l", prompt |-> "p",
         action |-> "capture"]]

\* what the form hands to addPrompt and updatePrompt; "" is an empty field
PromptInputs ==
    {[icon |-> "", label |-> "a", prompt |-> "p", action |-> ""],
     [icon |-> "x", label |-> "b", prompt |-> "q", action |-> "capture"]}

\* JSON.stringify(this.prompts): each object becomes its values in key order
Stringify(prompts) ==
    [st |-> "json",
     data |-> [i \in 1..Len(prompts) |->
                 <<prompts[i].id, prompts[i].icon, prompts[i].label,
                   prompts[i].prompt, prompts[i].action>>]]

\* JSON.parse(stored)
Parse(data) ==
    [i \in 1..Len(data) |->
        [id |-> data[i][1], icon |-> data[i][2], label |-> data[i][3],
         prompt |-> data[i][4], action |-> data[i][5]]]

\* loadPrompts taking an empty stored list for a missing entry
LoadPrompts_EmptyIsUnset(stored) ==
    IF stored.st = "json" /\ stored.data # <<>>
    THEN [prompts |-> Parse(stored.data), save |-> FALSE]
    ELSE [prompts |-> DefaultPrompts, save |-> TRUE]

\* loadPrompts: the stored list if there is an entry, else the defaults,
\* which are then saved
LoadPrompts(stored) ==
    IF stored.st = "json"
    THEN [prompts |-> Parse(stored.data), save |-> FALSE]
    ELSE [prompts |-> builtin, save |-> TRUE]

\* savePrompts: setItem either stores the serialisation or throws (quota),
\* and the catch only logs
SavePrompts(prompts, ok) == IF ok THEN Stringify(prompts) ELSE localStorage

\* this.prompts.findIndex(p => p.id === id); 0 stands for -1
FindIndex(prompts, id) ==
    IF \E i \in 1..Len(prompts) : prompts[i].id = id
    THEN CHOOSE i \in 1..Len(prompts) :
            /\ prompts[i].id = id
            /\ \A j \in 1..(i - 1) : prompts[j].id # id
    ELSE 0

\* the object addPrompt and updatePrompt build
PromptObject(id, input) ==
    [id |-> id,
     icon |-> IF input.icon = "" THEN "memo" ELSE input.icon,
     label |-> input.label,
     prompt |-> input.prompt,
     action |-> IF input.action = "" THEN "copy" ELSE input.action]

\* this.prompts.splice(index, 1)
Splice(prompts, index) ==
    SubSeq(prompts, 1, index - 1) \o SubSeq(prompts, index + 1, Len(prompts))

PromptIds == {manager.prompts[i].id : i \in 1..Len(manager.prompts)} \cup {<<"custom", 0>>}

promptRest == <<winVars, files, command, queue, saveLog, adhocLog, enqueued, consVars,
                raceVars, geomVars, pathVars, transVars>>

\* new CustomPromptsManager(), at every load of the page
NewManager(ok) ==
    /\ manager.loads < MaxLoads
    /\ LET loaded == LoadPrompts(localStorage)
       IN /\ manager' = [loads |-> manager.loads + 1, prompts |-> loaded.prompts]
          /\ localStorage' = IF loaded.save THEN SavePrompts(loaded.prompts, ok)
                             ELSE localStorage
    /\ lastOp' = "load"
    /\ UNCHANGED <<promptRest, now, nops, builtin>>

AddPrompt(input, ok) ==
    /\ manager.loads > 0
    /\ nops < MaxOps
    /\ \E t \in DateNow(now) :
          /\ now' = t
          /\ manager' = [manager EXCEPT
                 !.prompts = Append(@, PromptObject(<<"custom", t>>, input))]
    /\ localStorage' = SavePrompts(manager'.prompts, ok)
    /\ nops' = nops + 1
    /\ lastOp' = "add"
    /\ UNCHANGED <<promptRest, builtin>>

\* faulty variant of updatePrompt: the object in the list is changed in
\* place (Object.assign), and the list shares its objects with
\* DEFAULT_PROMPTS
UpdatePrompt_InPlace(id, input, ok) ==
    /\ manager.loads > 0
    /\ nops < MaxOps
    /\ LET index == FindIndex(manager.prompts, id)
       IN IF index # 0
          THEN /\ manager' = [manager EXCEPT !.prompts[index] = PromptObject(id, input)]
               /\ localStorage' = SavePrompts(manager'.prompts, ok)
               /\ nops' = nops + 1
               /\ lastOp' = "update"
               /\ builtin' = [j \in DOMAIN builtin |->
                                 IF builtin[j] = manager.prompts[index]
                                 THEN PromptObject(id, input) ELSE builtin[j]]
          ELSE UNCHANGED promptVars
    /\ UNCHANGED <<promptRest, now>>

UpdatePrompt(id, input, ok) ==
    /\ manager.loads > 0
    /\ nops < MaxOps
    /\ LET index == FindIndex(manager.prompts, id)
       IN IF index # 0
          THEN /\ manager' = [manager EXCEPT !.prompts[index] = PromptObject(id, input)]
               /\ localStorage' = SavePrompts(manager'.prompts, ok)
               /\ nops' = nops + 1
               /\ lastOp' = "update"
               /\ builtin' = builtin
          ELSE UNCHANGED promptVars
    /\ UNCHANGED <<promptRest, now>>

DeletePrompt(id, ok) ==
    /\ manager.loads > 0
    /\ nops < MaxOps
    /\ LET index == FindIndex(manager.prompts, id)
       IN IF index # 0
          THEN /\ manager' = [manager EXCEPT !.prompts = Splice(@, index)]
               /\ localStorage' = SavePrompts(manager'.prompts, ok)
               /\ nops' = nops + 1
               /\ lastOp' = "delete"
               /\ builtin' = builtin
          ELSE UNCHANGED promptVars
    /\ UNCHANGED <<promptRest, now>>

ResetToDefaults(ok) ==
    /\ manager.loads > 0
    /\ nops < MaxOps
    /\ manager' = [manager EXCEPT !.prompts = builtin]
    /\ localStorage' = SavePrompts(builtin, ok)
    /\ nops' = nops + 1
    /\ lastOp' = "reset"
    /\ UNCHANGED <<promptRest, now, builtin>>

(* ---------------------------- specification ---------------------------- *)

Init ==
    /\ backend \in Backends
    /\ mainVisible = TRUE
    /\ mainWindow = "window"
    /\ screenshotWindow = NoWindow
    /\ surfaces = {}
    /\ nwin = 0
    /\ req = <<>>
    /\ backendCalls = {}
    /\ msgs = <<>>
    /\ now = 0
    /\ files = <<>>
    /\ command = MissingFile
    /\ queue = MissingFile
    /\ saveLog = <<>>
    /\ adhocLog = <<>>
    /\ enqueued = <<>>
    /\ delivered = <<>>
    /\ lastDeq = Empty
    /\ producer = Idle
    /\ consumer = Idle
    /\ crashes = 0
    /\ display = [width |-> LogicalWidth, height |-> LogicalHeight, scale4 |-> 4]
    /\ selection = NoRect
    /\ cropped = NoCrop
    /\ other = Idle
    /\ env = NoEnv
    /\ sinkPaths = NoPaths
    /\ localStorage = NoEntry
    /\ manager = NoManager
    /\ nops = 0
    /\ builtin = DefaultPrompts
    /\ lastOp = "none"
    /\ transcriptWindow = NoWindow
    /\ twin = <<>>
    /\ tcreated = 0
    /\ focused = 0
    /\ backendLog = <<>>

\* The screenshot flow: the overlay window handlers and the persistence of
\* what they captured.
Next ==
    \/ StartScreenshot
    \/ \E w \in surfaces : CloseCancel(w)
    \/ \E w \in surfaces, ok \in BOOLEAN : CloseConfirm(w, ok)
    \/ \E r \in DOMAIN req, ok \in BOOLEAN : CaptureReturn(r, ok)
    \/ \E r \in DOMAIN req, ok \in BOOLEAN : CropReturn(r, ok)
    \/ \E r \in DOMAIN msgs, p \in Prompts, d \in Destinations : SaveCall(r, p, d)

Spec == Init /\ [][Next]_vars

\* The same handlers with a main window that can close while a selection
\* window is open.
ClosedNext == Next \/ MainClosed

ClosedSpec == Init /\ [][ClosedNext]_vars

\* Every backend call returns: a pending capture or crop promise settles.
Settles ==
    \E r \in DOMAIN req, ok \in BOOLEAN : CaptureReturn(r, ok) \/ CropReturn(r, ok)
LiveSpec == Spec /\ WF_vars(Settles)

\* The queue subsystem on its own: the two handlers that enqueue and the
\* consumer that dequeues, from the state in which one capture has been
\* delivered to the renderer (start-screenshot, close-screenshot with a
\* selection, the capture and the crop returned). The window handlers and
\* the stores do not touch each other's state.
QueueInit ==
    /\ backend = "pipeline"
    /\ mainVisible = TRUE
    /\ mainWindow = "window"
    /\ screenshotWindow = NoWindow
    /\ surfaces = {}
    /\ nwin = 1
    /\ req = <<"captured">>
    /\ backendCalls = {1}
    /\ msgs = <<"data">>
    /\ now = 0
    /\ files = <<>>
    /\ command = MissingFile
    /\ queue = MissingFile
    /\ saveLog = <<>>
    /\ adhocLog = <<>>
    /\ enqueued = <<>>
    /\ delivered = <<>>
    /\ lastDeq = Empty
    /\ producer = Idle
    /\ consumer = Idle
    /\ crashes = 0
    /\ display = [width |-> LogicalWidth, height |-> LogicalHeight, scale4 |-> 4]
    /\ selection = NoRect
    /\ cropped = NoCrop
    /\ other = Idle
    /\ env = NoEnv
    /\ sinkPaths = NoPaths
    /\ localStorage = NoEntry
    /\ manager = NoManager
    /\ nops = 0
    /\ builtin = DefaultPrompts
    /\ lastOp = "none"
    /\ transcriptWindow = NoWindow
    /\ twin = <<>>
    /\ tcreated = 0
    /\ focused = 0
    /\ backendLog = <<>>

QueueNext ==
    \/ \E r \in DOMAIN msgs, p \in Prompts, d \in Destinations : SaveCall(r, p, d)
    \/ \E p \in Prompts, d \in Destinations : AdhocCall(p, d)
    \/ Dequeue

QueueSpec == QueueInit /\ [][QueueNext]_vars

\* The queue file under one producer and one consumer whose reads and
\* write-backs interleave freely; no process is killed.
RaceNext ==
    \/ \E p \in Prompts \ {NoPrompt} : EnqueueRead(p)
    \/ EnqueueWrite
    \/ DequeueRead
    \/ DequeueWrite

RaceSpec == QueueInit /\ [][RaceNext]_vars

\* The queue file under operations that never overlap (an operation starts
\* only when the other process has none under way), either process being
\* killed in the middle of its own.
CrashNext ==
    \/ (consumer.pc = "idle" /\ \E p \in Prompts \ {NoPrompt} : EnqueueRead(p))
    \/ EnqueueWrite
    \/ (producer.pc = "idle" /\ DequeueRead)
    \/ DequeueWrite
    \/ \E inWrite \in BOOLEAN : ProducerCrash(inWrite)
    \/ \E processed \in BOOLEAN : ConsumerCrash(processed)

CrashSpec == QueueInit /\ [][CrashNext]_vars

\* The crop geometry on its own: one display, one confirmed selection, any
\* of the three variants, evaluated up to MaxEvals times.
GeomInit ==
    /\ backend \in Backends
    /\ mainVisible = FALSE
    /\ mainWindow = "window"
    /\ screenshotWindow = NoWindow
    /\ surfaces = {}
    /\ nwin = 1
    /\ req = <<"capturing">>
    /\ backendCalls = {1}
    /\ msgs = <<>>
    /\ now = 0
    /\ files = <<>>
    /\ command = MissingFile
    /\ queue = MissingFile
    /\ saveLog = <<>>
    /\ adhocLog = <<>>
    /\ enqueued = <<>>
    /\ delivered = <<>>
    /\ lastDeq = Empty
    /\ producer = Idle
    /\ consumer = Idle
    /\ crashes = 0
    /\ display \in Displays
    /\ selection \in Selections
    /\ cropped = NoCrop
    /\ other = Idle
    /\ env = NoEnv
    /\ sinkPaths = NoPaths
    /\ localStorage = NoEntry
    /\ manager = NoManager
    /\ nops = 0
    /\ builtin = DefaultPrompts
    /\ lastOp = "none"
    /\ transcriptWindow = NoWindow
    /\ twin = <<>>
    /\ tcreated = 0
    /\ focused = 0
    /\ backendLog = <<>>

GeomNext == CaptureRegion

GeomSpec == GeomInit /\ [][GeomNext]_vars

\* The screenshots directory and the sinks under save-screenshot-data alone:
\* two captures have been delivered to the renderer and each is saved once.
StoreInit ==
    /\ backend = "pipeline"
    /\ mainVisible = TRUE
    /\ mainWindow = "window"
    /\ screenshotWindow = NoWindow
    /\ surfaces = {}
    /\ nwin = 2
    /\ req = <<"captured", "captured">>
    /\ backendCalls = {1, 2}
    /\ msgs = <<"data", "data">>
    /\ now = 0
    /\ files = <<>>
    /\ command = MissingFile
    /\ queue = MissingFile
    /\ saveLog = <<>>
    /\ adhocLog = <<>>
    /\ enqueued = <<>>
    /\ delivered = <<>>
    /\ lastDeq = Empty
    /\ producer = Idle
    /\ consumer = Idle
    /\ crashes = 0
    /\ display = [width |-> LogicalWidth, height |-> LogicalHeight, scale4 |-> 4]
    /\ selection = NoRect
    /\ cropped = NoCrop
    /\ other = Idle
    /\ env = NoEnv
    /\ sinkPaths = NoPaths
    /\ localStorage = NoEntry
    /\ manager = NoManager
    /\ nops = 0
    /\ builtin = DefaultPrompts
    /\ lastOp = "none"
    /\ transcriptWindow = NoWindow
    /\ twin = <<>>
    /\ tcreated = 0
    /\ focused = 0
    /\ backendLog = <<>>

StoreNext ==
    \E r \in DOMAIN msgs, p \in Prompts, d \in Destinations : Save(r, p, d)

StoreSpec == StoreInit /\ [][StoreNext]_vars

\* The queue file under two instances of the app whose queue blocks
\* interleave freely; nothing is dequeued and no process is killed.
WritersNext ==
    \/ \E p \in Prompts \ {NoPrompt} : EnqueueRead(p)
    \/ EnqueueWrite
    \/ \E p \in Prompts \ {NoPrompt} : OtherEnqueueRead(p)
    \/ OtherEnqueueWrite

WritersSpec == QueueInit /\ [][WritersNext]_vars

\* The resolution of the sink paths on its own, for every setting of the
\* two environment variables.
PathInit ==
    /\ backend = "pipeline"
    /\ mainVisible = TRUE
    /\ mainWindow = "window"
    /\ screenshotWindow = NoWindow
    /\ surfaces = {}
    /\ nwin = 1
    /\ req = <<"captured">>
    /\ backendCalls = {1}
    /\ msgs = <<"data">>
    /\ now = 0
    /\ files = <<>>
    /\ command = MissingFile
    /\ queue = MissingFile
    /\ saveLog = <<>>
    /\ adhocLog = <<>>
    /\ enqueued = <<>>
    /\ delivered = <<>>
    /\ lastDeq = Empty
    /\ producer = Idle
    /\ consumer = Idle
    /\ crashes = 0
    /\ display = [width |-> LogicalWidth, height |-> LogicalHeight, scale4 |-> 4]
    /\ selection = NoRect
    /\ cropped = NoCrop
    /\ other = Idle
    /\ env \in Envs
    /\ sinkPaths = NoPaths
    /\ localStorage = NoEntry
    /\ manager = NoManager
    /\ nops = 0
    /\ builtin = DefaultPrompts
    /\ lastOp = "none"
    /\ transcriptWindow = NoWindow
    /\ twin = <<>>
    /\ tcreated = 0
    /\ focused = 0
    /\ backendLog = <<>>

PathNext == \E handler \in {"save", "adhoc"} : ResolvePaths(handler)

PathSpec == PathInit /\ [][PathNext]_vars

\* The prompt manager of the overlay page over a fresh profile.
PromptNext ==
    \/ \E ok \in BOOLEAN : NewManager(ok)
    \/ \E input \in PromptInputs, ok \in BOOLEAN : AddPrompt(input, ok)
    \/ \E id \in PromptIds, input \in PromptInputs, ok \in BOOLEAN :
          UpdatePrompt(id, input, ok)
    \/ \E id \in PromptIds, ok \in BOOLEAN : DeletePrompt(id, ok)
    \/ \E ok \in BOOLEAN : ResetToDefaults(ok)

PromptSpec == QueueInit /\ [][PromptNext]_vars

\* The transcript window on its own.
TranscriptNext ==
    \/ CreateTranscriptWindow
    \/ \E w \in DOMAIN twin : TranscriptReady(w)
    \/ \E w \in DOMAIN twin : TranscriptClosed(w)

TranscriptSpec == QueueInit /\ [][TranscriptNext]_vars

(* ------------------------------- claims -------------------------------- *)

Requests == 1..MaxIpc

\* invocation r of close-screenshot reaches stage st in this step
Ends(r, st) ==
    /\ r \in DOMAIN req'
    /\ req'[r] = st
    /\ (r \in DOMAIN req => req[r] # st)

\* what the stores hold that handler call `by` wrote
FilesOf(by) == {n \in DOMAIN files : files[n].by = by}
InCommand(by) == command.st = "json" /\ command.data[1].by = by
InQueue(by) == \E i \in 1..Len(queue.data) : queue.data[i].by = by
WasEnqueued(by) == \E i \in 1..Len(enqueued) : enqueued[i].by = by
Persisted(by) == FilesOf(by) # {} \/ InCommand(by) \/ InQueue(by) \/ WasEnqueued(by)

\* C1: once start-screenshot has hidden the main window, every way out of
\* close-screenshot shows it again: the cancel path, a capture that succeeds
\* and one that fails each end with the main window shown, a pending capture
\* always ends (every backend call returns), save-screenshot-data (whether it
\* persists or fails) never hides it, and the main window is never hidden
\* with neither a selection window open nor a capture pending.
C1_MainShownOnEveryExit ==
    /\ [][\A r \in Requests :
            (Ends(r, "cancelled") \/ Ends(r, "captured") \/ Ends(r, "failed"))
                => mainVisible']_vars
    /\ [][saveLog' # saveLog => mainVisible' = mainVisible]_vars
    /\ [](~mainVisible => (surfaces # {} \/ InFlight # {}))
    /\ \A r \in Requests : (r \in InFlight) ~> (r \notin InFlight /\ mainVisible)

\* C1 witness: the main window was hidden, the capture failed, and the main
\* window is shown again.
C1_FailedCaptureShown ==
    \E r \in DOMAIN req : req[r] = "failed" /\ nwin > 0 /\ mainVisible

\* C2: at most one selection window exists at any time (start-screenshot
\* while one is open creates none).
C2_AtMostOneSurface == Cardinality(surfaces) <= 1

\* C3: the main window and a selection window are never both there, and
\* they are both gone only while a confirmed capture is in flight.
C3_ExactlyOneSurfaceShown ==
    /\ ~(mainVisible /\ surfaces # {})
    /\ (~mainVisible /\ surfaces = {}) => InFlight # {}

C5_CancelHasNoSideEffects ==
    /\ [](\A r \in DOMAIN req : req[r] = "cancelled" =>
            r \notin backendCalls /\ ~Persisted(<<"save", r>>))
    /\ [][\A r \in Requests : Ends(r, "cancelled") =>
            UNCHANGED <<files, command, queue, backendCalls>>]_vars

\* C5 witness: a capture was cancelled and the listener forwarded its result
\* to save-screenshot-data.
C5_CancelForwarded ==
    \E r \in DOMAIN req : req[r] = "cancelled" /\ r \in DOMAIN saveLog

\* C6: a capture whose backend fails ends with the main window shown and
\* {dataUrl: null} sent to the listener, and nothing is persisted for it,
\* also when the listener forwards that result to save-screenshot-data.
C6_BackendFailurePersistsNothing ==
    /\ [](\A r \in DOMAIN req : req[r] = "failed" =>
            /\ r \in DOMAIN msgs
            /\ msgs[r] = "nodata"
            /\ ~Persisted(<<"save", r>>))
    /\ [][\A r \in Requests : Ends(r, "failed") => mainVisible']_vars

\* C6 witness: a capture failed, the listener forwarded the failed result
\* and save-screenshot-data reported failure.
C6_FailureForwarded ==
    \E r \in DOMAIN req :
        /\ req[r] = "failed"
        /\ r \in DOMAIN saveLog
        /\ saveLog[r].ret = "failure"

\* C7: when the write of the PNG or of the prompt file throws,
\* save-screenshot-data reports failure, no file of the call is left in the
\* screenshots directory, and neither .command nor the queue holds anything
\* of the call.
C7_FailedWriteLeavesNoFile ==
    \A r \in DOMAIN saveLog :
        saveLog[r].threw \in {"png", "txt"} =>
            /\ saveLog[r].ret = "failure"
            /\ FilesOf(<<"save", r>>) = {}
            /\ ~InCommand(<<"save", r>>)
            /\ ~InQueue(<<"save", r>>)

\* C8: for a call that targets both sinks, a .command write that throws
\* does not keep the item out of the queue, and a queue failure leaves the
\* .command that was written.
C8_SinkFailuresIsolated ==
    \A r \in DOMAIN saveLog :
        (saveLog[r].prompt # NoPrompt /\ saveLog[r].dests.gemini /\ saveLog[r].dests.claude) =>
            /\ (saveLog[r].threw = "cmd" => WasEnqueued(<<"save", r>>))
            /\ (saveLog[r].threw \in {"qread", "qparse", "qwrite"} => InCommand(<<"save", r>>))

\* C9: a sink write that throws after the image and the prompt file were
\* persisted leaves the result of save-screenshot-data a success.
C9_SinkFailureKeepsSuccess ==
    \A r \in DOMAIN saveLog :
        saveLog[r].threw \in {"cmd", "qread", "qparse", "qwrite"} =>
            saveLog[r].ret = "success"

\* C10: while the queue file parses, what the consumer was given followed
\* by what the file holds is exactly what was enqueued, in enqueue order
\* (strict FIFO, each item once), and dequeue returns Empty only when the
\* file holds no item, leaving it as it is.
C10_StrictFifo ==
    /\ [](queue.st # "corrupt" => delivered \o queue.data = enqueued)
    /\ [][(lastDeq' = Empty /\ lastDeq # Empty) =>
            (queue.data = <<>> /\ UNCHANGED <<queue, delivered>>)]_vars

\* C10 witness: two items were enqueued, both were dequeued in that order,
\* and the next dequeue returned Empty.
C10_TwoDeliveredThenEmpty ==
    /\ Len(enqueued) = 2
    /\ delivered = enqueued
    /\ queue.data = <<>>
    /\ lastDeq = Empty

\* C11: a successful enqueue (of a screenshot or of an ad-hoc prompt) leaves
\* the queue file holding exactly the array it held before followed by the
\* new item, one longer and with the earlier items untouched; a missing
\* file counts as the empty array.
C11_EnqueueAppendsOne ==
    [][Len(enqueued') = Len(enqueued) + 1 =>
            /\ queue.st # "corrupt"
            /\ queue'.st = "json"
            /\ Len(queue'.data) = Len(queue.data) + 1
            /\ queue'.data = queue.data \o <<enqueued'[Len(enqueued')]>>
            /\ (queue.st = "missing" => queue'.data = <<enqueued'[Len(enqueued')]>>)]_vars

\* C11 witness: an item was enqueued onto a file whose item is still there,
\* in front of it.
C11_AppendedBehind ==
    /\ Len(enqueued) = 2
    /\ queue.st = "json"
    /\ queue.data = enqueued

\* the items a dequeue has returned, and the items the queue file holds
Delivered == {delivered[i] : i \in 1..Len(delivered)}
InFile == {queue.data[i] : i \in 1..Len(queue.data)}

\* C12: with one producer and one consumer whose reads and write-backs
\* interleave, no item is lost: once neither has an operation under way,
\* every item whose enqueue reported success has been returned by a dequeue
\* or is still in the file for the next poll.
C12_NoItemLost ==
    (producer.pc = "idle" /\ consumer.pc = "idle") =>
        \A i \in 1..Len(enqueued) : enqueued[i] \in Delivered \cup InFile

\* C13: with operations that never overlap, a process killed in the middle
\* of its own enqueue or dequeue loses no item: every item already enqueued
\* has been delivered or is in the file.
C13_CrashLosesNothing ==
    \A i \in 1..Len(enqueued) :
        enqueued[i] \notin Delivered => (queue.st = "json" /\ enqueued[i] \in InFile)

InBounds(sel, d) == Inside(sel, <<d.width, d.height>>)

\* round(num / den) as the spec means it: the integer n with
\* n - 1/2 <= num/den < n + 1/2
Nearest(num, den) ==
    CHOOSE n \in 0..(2 * (LogicalWidth + LogicalHeight + 2)) :
        /\ 2 * den * n - den <= 2 * num
        /\ 2 * num < 2 * den * n + den

\* round(R * s), element by element
RoundedRect(sel, d) ==
    [x |-> Nearest(sel.x * d.scale4, 4),
     y |-> Nearest(sel.y * d.scale4, 4),
     width |-> Nearest(sel.width * d.scale4, 4),
     height |-> Nearest(sel.height * d.scale4, 4)]

\* C15: for each of the four scale factors and every selection within the
\* display, the rect the pipeline variant crops is round(R * s) element by
\* element, and evaluating it again for the same selection and display
\* gives the same rect.
C15_NativeRectIsRounded ==
    /\ []((cropped.n > 0 /\ backend = "pipeline" /\ InBounds(selection, display))
            => cropped.rect = RoundedRect(selection, display))
    /\ [][(cropped.n > 0 /\ cropped'.n > cropped.n) => cropped'.rect = cropped.rect]_vars

\* C15 witness: at scale 1.25 a selection starting at x = 2 (2.5 in native
\* pixels) was cropped twice by the pipeline variant, from x = 3.
C15_HalfPixelRoundedUp ==
    /\ backend = "pipeline"
    /\ display.scale4 = 5
    /\ InBounds(selection, display)
    /\ selection.x = 2
    /\ cropped.n = 2
    /\ cropped.rect.x = 3

\* C16: a selection that sticks out of the display is clamped to it before
\* scaling: the rect handed to the crop call is the one computed for the
\* part of the selection within the display.
C16_ClampedBeforeScaling ==
    LET logical == <<display.width, display.height>>
        part == Clip(selection, logical)
    IN (cropped.n > 0 /\ ~InBounds(selection, display)
            /\ part.width > 0 /\ part.height > 0)
        => cropped.rect = CropRect(backend, part, display)

\* C17: a confirmed selection whose part within the display has no width or
\* no height is rejected before the capture backend is called.
C17_InvalidSelectionRejected ==
    LET part == Clip(selection, <<display.width, display.height>>)
    IN (cropped.n > 0 /\ (part.width <= 0 \/ part.height <= 0))
        => (~cropped.invoked /\ cropped.outcome # "image")

\* C18: for a selection within the display the three variants crop the same
\* native rect, and the image that comes back is round(width * s) by
\* round(height * s) whichever variant ran.
C18_VariantsAgree ==
    (cropped.n > 0 /\ InBounds(selection, display)) =>
        /\ \A b \in Backends :
                CropRect(b, selection, display) = RoundedRect(selection, display)
        /\ cropped.size = <<RoundedRect(selection, display).width,
                            RoundedRect(selection, display).height>>

\* C19: the main window is shown only after the capture backend call of a
\* confirmed selection has completed: while a capture is in flight the main
\* window is hidden.
C19_ShownOnlyAfterCapture == InFlight # {} => ~mainVisible

\* C20: a close-screenshot without a selection that arrives while a capture
\* is in flight has no effect: it does not show the main window and sends
\* the listener nothing.
C20_MidFlightCancelIgnored ==
    [][\A c \in Requests : (Ends(c, "cancelled") /\ InFlight # {}) =>
            (mainVisible' = mainVisible /\ msgs' = msgs)]_vars

\* C21: a save-screenshot-data call with a non-empty prompt that gets past
\* its two file writes leaves capture-<ts>.png and capture-<ts>.txt of one
\* and the same <ts>, both written by that call; and at all times every
\* capture-<ts>.txt in the screenshots directory has a capture-<ts>.png.
C21_PromptFileBesideImage ==
    /\ [][\A r \in Requests :
            (r \notin DOMAIN saveLog /\ r \in DOMAIN saveLog'
                    /\ saveLog'[r].prompt # NoPrompt
                    /\ saveLog'[r].threw \notin {"decode", "png", "txt"})
                => /\ <<"png", saveLog'[r].ts>> \in DOMAIN files'
                   /\ <<"txt", saveLog'[r].ts>> \in DOMAIN files'
                   /\ files'[<<"png", saveLog'[r].ts>>] = [by |-> <<"save", r>>, full |-> TRUE]
                   /\ files'[<<"txt", saveLog'[r].ts>>] = [by |-> <<"save", r>>, full |-> TRUE]]_vars
    /\ [](\A n \in DOMAIN files : n[1] = "txt" => <<"png", n[2]>> \in DOMAIN files)

\* C21 witness: two saves with a prompt, at different times, each left its
\* pair of files.
C21_TwoPairs ==
    /\ DOMAIN saveLog = {1, 2}
    /\ saveLog[1].ts # saveLog[2].ts
    /\ \A r \in {1, 2} :
        /\ saveLog[r].ret = "success"
        /\ saveLog[r].prompt # NoPrompt
        /\ <<"txt", saveLog[r].ts>> \in DOMAIN files
        /\ files[<<"txt", saveLog[r].ts>>].by = <<"save", r>>
        /\ files[<<"png", saveLog[r].ts>>].by = <<"save", r>>

\* the PNG of this name is in the screenshots directory, completely written
ImagePersisted(t) == <<"png", t>> \in DOMAIN files /\ files[<<"png", t>>].full

\* C22: every screenshot item in the queue and every .command with a
\* screenshot_path names a PNG that is completely written, and nothing was
\* routed for a request whose image write failed.
C22_RoutedNamesPersistedImage ==
    /\ \A i \in 1..Len(queue.data) :
            queue.data[i].type = "screenshot" => ImagePersisted(queue.data[i].filename)
    /\ (command.st = "json" /\ command.data[1].screenshot_path # NoFileName)
            => ImagePersisted(command.data[1].screenshot_path)
    /\ \A r \in DOMAIN saveLog :
            saveLog[r].threw \in {"decode", "png"}
                => (~InQueue(<<"save", r>>) /\ ~InCommand(<<"save", r>>))

\* what a handler call logged in this step: the new saveLog entries and the
\* new adhocLog entry
NewCalls ==
    {saveLog'[r] : r \in DOMAIN saveLog' \ DOMAIN saveLog}
        \cup (IF Len(adhocLog') > Len(adhocLog) THEN {adhocLog'[Len(adhocLog')]} ELSE {})

Kinds == {"screenshot", "text", "code_generation"}

\* C24: every item appended to the queue carries one of the three kinds,
\* a prompt and a timestamp.
C24_ItemKindsKnown ==
    \A i \in 1..Len(enqueued) :
        /\ enqueued[i].type \in Kinds
        /\ enqueued[i].prompt \in Prompts
        /\ enqueued[i].timestamp > 0

\* the items whose enqueue reported success and that are not in the file
Missing == {enqueued[i] : i \in 1..Len(enqueued)} \ InFile

\* C25: with two processes running enqueue on one file, an item whose
\* enqueue reported success can be missing from the file without having
\* been dequeued, and it goes missing only through an overlap: in the
\* write-back of a process whose array was read before the other process
\* wrote.
C25_LostOnlyByOverlap ==
    [][Missing' # Missing =>
            \/ (producer.pc = "read" /\ producer' = Idle /\ producer.buf # queue.data)
            \/ (other.pc = "read" /\ other' = Idle /\ other.buf # queue.data)]_vars

\* C25 witness: both enqueues reported success, nothing was dequeued, and
\* the file holds only one of the two items.
C25_LostUpdate ==
    /\ Len(enqueued) = 2
    /\ delivered = <<>>
    /\ producer.pc = "idle"
    /\ other.pc = "idle"
    /\ queue.st = "json"
    /\ Len(queue.data) = 1
    /\ Missing # {}

\* C26: whatever the storage path is set to, save-screenshot-data and
\* send-adhoc-prompt resolve the same .command and the same
\* .prompt_queue.json.
C26_OneRootForSinks ==
    DOMAIN sinkPaths = {"save", "adhoc"} => sinkPaths["save"] = sinkPaths["adhoc"]

\* C27: every addPrompt, successful updatePrompt, successful deletePrompt
\* and resetToDefaults leaves in localStorage the serialisation of the list
\* the manager then holds.
C27_StoredIsCurrentList ==
    [][nops' = nops + 1 => localStorage' = Stringify(manager'.prompts)]_vars

\* C28: a load takes the stored list whenever an entry is stored, the empty
\* list included, and leaves the entry alone; only without an entry does it
\* install the defaults, which it then saves (unless the store refuses).
C28_DefaultsOnlyWithoutEntry ==
    [][manager'.loads = manager.loads + 1 =>
         IF localStorage.st = "json"
         THEN /\ manager'.prompts = Parse(localStorage.data)
              /\ Stringify(manager'.prompts) = localStorage
              /\ localStorage' = localStorage
         ELSE /\ manager'.prompts = DefaultPrompts
              /\ localStorage' \in {localStorage, Stringify(DefaultPrompts)}]_vars

\* a second manager loaded the stored empty list, after the first one had
\* saved the defaults and then deleted them all
C28_EmptyListLoaded ==
    /\ manager.loads = 2
    /\ manager.prompts = <<>>
    /\ localStorage = Stringify(<<>>)
    /\ nops = NumDefaults

\* the payload each way out of close-screenshot sends
Shape(st) ==
    CASE st = "cancelled" -> "null"
      [] st = "captured" -> "data"
      [] st = "failed" -> "nodata"

\* C29: a close-screenshot that has run to its end has sent the listener
\* exactly one screenshot-captured, null after a cancel, a dataUrl after a
\* capture, {dataUrl: null} after a failure; one that is still awaiting has
\* sent none, no step sends for two requests, and a result once sent is
\* never followed by another for the same request.
C29_OneResultPerClose ==
    /\ [](DOMAIN msgs \subseteq DOMAIN req)
    /\ [](\A r \in DOMAIN req :
            IF r \in InFlight THEN r \notin DOMAIN msgs
            ELSE r \in DOMAIN msgs /\ msgs[r] = Shape(req[r]))
    /\ [][/\ Cardinality(DOMAIN msgs' \ DOMAIN msgs) <= 1
          /\ \A r \in DOMAIN msgs : r \in DOMAIN msgs' /\ msgs'[r] = msgs[r]]_vars

\* C29 witness: one close-screenshot ended in a failed capture and another
\* in a cancel, and each left its own result with the listener.
C29_TwoShapesSent ==
    \E r, q \in DOMAIN req :
        /\ req[r] = "failed" /\ msgs[r] = "nodata"
        /\ req[q] = "cancelled" /\ msgs[q] = "null"
        /\ DOMAIN msgs = DOMAIN req

\* the handler calls of this step
NewCallers ==
    {<<"save", r>> : r \in DOMAIN saveLog' \ DOMAIN saveLog}
        \cup (IF Len(adhocLog') > Len(adhocLog) THEN {<<"adhoc", Len(adhocLog')>>} ELSE {})

\* C30: .command never holds more than one command; a push that gets
\* through leaves exactly the command of its own call, whatever the file
\* held and whether or not that was consumed; and nothing but a push
\* changes the file.
C30_CommandIsSingleSlot ==
    /\ [](command.st = "json" => Len(command.data) = 1)
    /\ [][command' # command =>
            \/ command' = CorruptFile
            \/ /\ command'.st = "json"
               /\ Len(command'.data) = 1
               /\ command'.data[1].by \in NewCallers]_vars
    /\ [][\A c \in NewCalls :
            (/\ c.dests.gemini
             /\ c.threw \notin {"decode", "png", "txt", "cmd"}
             /\ ("prompt" \in DOMAIN c => c.prompt # NoPrompt))
                => /\ command'.st = "json"
                   /\ Len(command'.data) = 1
                   /\ command'.data[1].by \in NewCallers]_vars

\* C30 witness: the ad-hoc prompt and the screenshot were both pushed, and
\* the file holds the screenshot's command alone: the ad-hoc one, which
\* nobody had taken, is gone.
C30_EarlierCommandReplaced ==
    /\ Len(adhocLog) = 1
    /\ adhocLog[1].dests.gemini
    /\ adhocLog[1].threw = "none"
    /\ 1 \in DOMAIN saveLog
    /\ saveLog[1].dests.gemini
    /\ saveLog[1].prompt # NoPrompt
    /\ saveLog[1].threw = "none"
    /\ command = JsonFile(<<[command |-> "analyze_screenshot", prompt |-> saveLog[1].prompt,
                             screenshot_path |-> saveLog[1].ts, by |-> <<"save", 1>>]>>)

\* the prompt files in the screenshots directory
TxtFiles(dir) == {n \in DOMAIN dir : n[1] = "txt"}

\* C31: a save-screenshot-data call without a prompt writes no prompt file
\* and leaves .command and the queue file as they are, whatever its
\* destinations; it can only fail on the image, and when it does not it
\* returns success with the image on disk.
C31_NoPromptOnlyImage ==
    [][\A r \in DOMAIN saveLog' \ DOMAIN saveLog :
         saveLog'[r].prompt = NoPrompt =>
            /\ TxtFiles(files') = TxtFiles(files)
            /\ command' = command
            /\ queue' = queue
            /\ enqueued' = enqueued
            /\ saveLog'[r].threw \in {"none", "decode", "png"}
            /\ saveLog'[r].threw = "none" =>
                  /\ saveLog'[r].ret = "success"
                  /\ <<"png", saveLog'[r].ts>> \in DOMAIN files'
                  /\ files'[<<"png", saveLog'[r].ts>>] =
                        [by |-> <<"save", r>>, full |-> TRUE]]_vars

\* C31 witness: a call that named both sinks but carried no prompt returned
\* success; its image is on disk and neither sink exists.
C31_ImageOnly ==
    \E r \in DOMAIN saveLog :
        /\ saveLog[r].prompt = NoPrompt
        /\ ~saveLog[r].omitted
        /\ saveLog[r].dests.gemini /\ saveLog[r].dests.claude
        /\ saveLog[r].ret = "success"
        /\ FilesOf(<<"save", r>>) = {<<"png", saveLog[r].ts>>}
        /\ command = MissingFile
        /\ queue = MissingFile

\* C32: no two successful save-screenshot-data calls wrote to the same file
\* name.
C32_FileNamesUnique ==
    \A r, q \in DOMAIN saveLog :
        (r # q /\ saveLog[r].ret = "success" /\ saveLog[q].ret = "success")
            => saveLog[r].ts # saveLog[q].ts

\* C33: for a selection within the display, the rect the pipeline and the
\* native variant hand to the crop call ends within the captured image:
\* x + width <= round(logicalWidth * s) and y + height <=
\* round(logicalHeight * s).
C33_MappedRectInsideFrame ==
    (cropped.n > 0 /\ backend \in {"pipeline", "native"} /\ InBounds(selection, display))
        => /\ cropped.rect.x + cropped.rect.width <= ImageSize(backend, display)[1]
           /\ cropped.rect.y + cropped.rect.height <= ImageSize(backend, display)[2]

\* C34: the prompts of the list have pairwise distinct ids.
C34_PromptIdsDistinct ==
    \A i, j \in 1..Len(manager.prompts) :
        i # j => manager.prompts[i].id # manager.prompts[j].id

\* C35: resetToDefaults leaves exactly the built-in list, in its order,
\* whatever was added, edited or deleted before; the built-in list itself
\* never changes; and a reset right after a reset changes nothing.
C35_ResetRestoresDefaults ==
    /\ [](builtin = DefaultPrompts)
    /\ [][(lastOp' = "reset" /\ nops' = nops + 1) =>
            manager'.prompts = DefaultPrompts]_vars
    /\ [][(lastOp = "reset" /\ lastOp' = "reset" /\ nops' = nops + 1) =>
            manager'.prompts = manager.prompts]_vars

\* C35 witness: a prompt had been added and the list changed once more
\* before the reset that left the defaults alone.
C35_CustomDiscarded ==
    /\ lastOp = "reset"
    /\ now > 0
    /\ nops = MaxOps
    /\ manager.prompts = DefaultPrompts

\* C36: no close-screenshot ends in an exception nobody catches, whether
\* or not the main window still exists.
C36_CloseNeverRejects ==
    \A r \in DOMAIN req : req[r] # "rejected"

\* C37: a handler call whose enqueue throws while reading or parsing the
\* queue file leaves that file as it was and returns failure, and what the
\* same call wrote before stays: the image and the prompt file of a save,
\* and the .command of either handler if the push sink was named.
C37_FailedReadKeepsEarlierWrites ==
    /\ [][\A r \in DOMAIN saveLog' \ DOMAIN saveLog :
            saveLog'[r].threw \in {"qread", "qparse"} =>
                /\ queue' = queue
                /\ enqueued' = enqueued
                /\ saveLog'[r].ret = "failure"
                /\ \A kind \in {"png", "txt"} :
                      /\ <<kind, saveLog'[r].ts>> \in DOMAIN files'
                      /\ files'[<<kind, saveLog'[r].ts>>] =
                            [by |-> <<"save", r>>, full |-> TRUE]
                /\ IF saveLog'[r].dests.gemini
                   THEN command'.st = "json" /\ command'.data[1].by = <<"save", r>>
                   ELSE command' = command]_vars
    /\ [][(Len(adhocLog') > Len(adhocLog)
                /\ adhocLog'[Len(adhocLog')].threw \in {"qread", "qparse"}) =>
            /\ queue' = queue
            /\ enqueued' = enqueued
            /\ adhocLog'[Len(adhocLog')].ret = "failure"
            /\ IF adhocLog'[Len(adhocLog')].dests.gemini
               THEN /\ command'.st = "json"
                    /\ command'.data[1].by = <<"adhoc", Len(adhocLog')>>
               ELSE command' = command]_vars

\* C37 witness: the queue file did not parse when the screenshot was to be
\* enqueued: the call returned failure, the file is as broken as before,
\* and the image, the prompt file and the command of the call are there.
C37_ParseFailureAfterWrites ==
    /\ 1 \in DOMAIN saveLog
    /\ saveLog[1].threw = "qparse"
    /\ saveLog[1].ret = "failure"
    /\ queue = CorruptFile
    /\ FilesOf(<<"save", 1>>) = {<<"png", saveLog[1].ts>>, <<"txt", saveLog[1].ts>>}
    /\ InCommand(<<"save", 1>>)

\* the transcript_window_closed commands posted for window w
ClosedPosts(w) ==
    {i \in 1..Len(backendLog) :
        backendLog[i] = [command |-> "transcript_window_closed", window |-> w]}

\* C38: at most one transcript window exists and the handle names it; an
\* open-transcript-window while it exists creates none and focuses it; the
\* handle is cleared when the window closes; and for every window that has
\* closed transcript_window_closed was posted to the backend exactly once,
\* for a window that still exists not at all.
C38_OneTranscriptWindow ==
    /\ [](Cardinality(DOMAIN twin) <= 1)
    /\ [](IF DOMAIN twin = {} THEN transcriptWindow = NoWindow
          ELSE DOMAIN twin = {transcriptWindow})
    /\ [][(DOMAIN twin # {} /\ focused' # focused) =>
            (tcreated' = tcreated /\ twin' = twin /\ focused' = focused + 1)]_vars
    /\ [](\A w \in 1..MaxTranscript :
            Cardinality(ClosedPosts(w)) =
                IF w <= tcreated /\ w \notin DOMAIN twin THEN 1 ELSE 0)

\* C38 witness: a window was opened, focused by a second open, closed, and
\* a later open created the second window; the backend was told of the one
\* close.
C38_ReopenedAfterClose ==
    /\ tcreated = 2
    /\ focused >= 1
    /\ DOMAIN twin = {2}
    /\ transcriptWindow = 2
    /\ Cardinality(ClosedPosts(1)) = 1

====
